---- MODULE Spec2Model ----
(***************************************************************************)
(* Model of skills/interview-to-spec/scripts/spec-validator.py.            *)
(*                                                                         *)
(* A document is its text: a sequence of one-character strings.  The       *)
(* regular expressions of the validator are modelled by what re.search and *)
(* re.findall do on that text (leftmost, non-overlapping, greedy matches,  *)
(* re.IGNORECASE where the code passes it).  main() is a loop over the     *)
(* supplied paths; each call of validate_spec is one step of it.           *)
(*                                                                         *)
(* Spec runs main() over sequences of paths of a small file system;        *)
(* SpecHeadings and SpecBodies run it over one document each, drawn from   *)
(* documents of varied headings and of varied body text.                   *)
(***************************************************************************)
EXTENDS Integers, Sequences, FiniteSets, TLC

(***************************************************************************)
(* Bounds of the model.                                                    *)
(***************************************************************************)
MaxFiles == 3      \* longest sequence of supplied paths
MaxMissing == 2    \* most required headings left out of a generated document
MaxBody == 2       \* most body lines of a generated document

(***************************************************************************)
(* Characters and the character classes of Python's re module.             *)
(***************************************************************************)
UpperCase == <<"A","B","C","D","E","F","G","H","I","J","K","L","M",
               "N","O","P","Q","R","S","T","U","V","W","X","Y","Z">>
LowerCase == <<"a","b","c","d","e","f","g","h","i","j","k","l","m",
               "n","o","p","q","r","s","t","u","v","w","x","y","z">>

UpperLetters == {UpperCase[k] : k \in 1..26}
LowerLetters == {LowerCase[k] : k \in 1..26}

IsUpper(ch) == ch \in UpperLetters
IsLower(ch) == ch \in LowerLetters

LowerOf == [ch \in UpperLetters |-> LowerCase[CHOOSE k \in 1..26 : UpperCase[k] = ch]]
UpperOf == [ch \in LowerLetters |-> UpperCase[CHOOSE k \in 1..26 : LowerCase[k] = ch]]

\* case folding done by re.IGNORECASE
ToLower(ch) == IF IsUpper(ch) THEN LowerOf[ch] ELSE ch
ToUpper(ch) == IF IsLower(ch) THEN UpperOf[ch] ELSE ch

\* the backquote character (a string of the module cannot hold it)
Backquote == "backquote"

IsSpace(ch) == ch \in {" ", "\t", "\n", "\r", "\f"}                   \* \s
IsDigit(ch) == ch \in {"0","1","2","3","4","5","6","7","8","9"}       \* \d
IsWordChar(ch) == IsUpper(ch) \/ IsLower(ch) \/ IsDigit(ch) \/ ch = "_" \* \w

\* the literal lit stands in c at position i
LitAt(c, i, lit) ==
    /\ i >= 1
    /\ i + Len(lit) - 1 <= Len(c)
    /\ \A k \in 1..Len(lit) : c[i + k - 1] = lit[k]

\* the same under re.IGNORECASE
LitAtI(c, i, lit) ==
    /\ i >= 1
    /\ i + Len(lit) - 1 <= Len(c)
    /\ \A k \in 1..Len(lit) : ToLower(c[i + k - 1]) = ToLower(lit[k])

RECURSIVE SpaceRun(_, _)
\* number of consecutive \s characters of c from position i on
SpaceRun(c, i) == IF i <= Len(c) /\ IsSpace(c[i]) THEN 1 + SpaceRun(c, i + 1) ELSE 0

RECURSIVE DigitRun(_, _)
\* number of consecutive \d characters of c from position i on
DigitRun(c, i) == IF i <= Len(c) /\ IsDigit(c[i]) THEN 1 + DigitRun(c, i + 1) ELSE 0

RECURSIVE LineRest(_, _)
\* number of characters from position i up to the end of its line
LineRest(c, i) == IF i <= Len(c) /\ c[i] # "\n" THEN 1 + LineRest(c, i + 1) ELSE 0

\* \b at position i: exactly one of c[i-1], c[i] is a word character
WordBoundary(c, i) ==
    LET before == i - 1 >= 1 /\ i - 1 <= Len(c) /\ IsWordChar(c[i - 1])
        after  == i >= 1 /\ i <= Len(c) /\ IsWordChar(c[i])
    IN  before # after

(***************************************************************************)
(* The required sections and the names of the quality checks.              *)
(***************************************************************************)
Overview == <<"O","v","e","r","v","i","e","w">>
UserStories == <<"U","s","e","r"," ","S","t","o","r","i","e","s">>
Technical == <<"T","e","c","h","n","i","c","a","l">>
UIUX == <<"U","I","/","U","X">>
EdgeCases == <<"E","d","g","e"," ","C","a","s","e","s">>
Security == <<"S","e","c","u","r","i","t","y">>
Performance == <<"P","e","r","f","o","r","m","a","n","c","e">>
Implementation == <<"I","m","p","l","e","m","e","n","t","a","t","i","o","n">>
What == <<"W","h","a","t">>
Why == <<"W","h","y">>
How == <<"H","o","w">>
AcceptanceCriteria ==
    <<"A","c","c","e","p","t","a","n","c","e"," ","C","r","i","t","e","r","i","a">>

FULL_SPEC_SECTIONS ==
    <<Overview, UserStories, Technical, UIUX, EdgeCases, Security, Performance,
      Implementation>>

QUICK_SPEC_SECTIONS == <<What, Why, How, AcceptanceCriteria>>

unresolved_placeholders ==
    <<"u","n","r","e","s","o","l","v","e","d","_",
      "p","l","a","c","e","h","o","l","d","e","r","s">>
empty_tables == <<"e","m","p","t","y","_","t","a","b","l","e","s">>
missing_acceptance_criteria ==
    <<"m","i","s","s","i","n","g","_","a","c","c","e","p","t","a","n","c","e","_",
      "c","r","i","t","e","r","i","a">>
vague_language == <<"v","a","g","u","e","_","l","a","n","g","u","a","g","e">>

\* the keys of QUALITY_PATTERNS, in the order of the dict
QUALITY_PATTERNS ==
    <<unresolved_placeholders, empty_tables, missing_acceptance_criteria,
      vague_language>>

\* the alternatives of the unresolved_placeholders pattern, in its order
PlaceholderTokens ==
    << <<"T","O","D","O">>, <<"T","B","D">>,
       <<"P","L","A","C","E","H","O","L","D","E","R">>,
       <<"X","X","X">>, <<"F","I","X","M","E">> >>

\* the alternatives of the vague_language pattern, in its order
VagueWords ==
    << <<"m","a","y","b","e">>, <<"p","r","o","b","a","b","l","y">>,
       <<"m","i","g","h","t">>, <<"c","o","u","l","d">>,
       <<"s","h","o","u","l","d"," ","c","o","n","s","i","d","e","r">>,
       <<"e","t","c",".">> >>

(***************************************************************************)
(* The patterns.  XMatchLen(c, i) is the length of the match of pattern X  *)
(* that starts at position i of c, and 0 when there is none (no pattern of *)
(* the validator matches the empty string).                                *)
(***************************************************************************)

\* \[(TODO|TBD|PLACEHOLDER|XXX|FIXME)\] under re.IGNORECASE
PlaceholderMatchLen(c, i) ==
    LET hits == {k \in 1..Len(PlaceholderTokens) :
                    /\ LitAtI(c, i + 1, PlaceholderTokens[k])
                    /\ LitAt(c, i + 1 + Len(PlaceholderTokens[k]), <<"]">>)}
    IN  IF ~LitAt(c, i, <<"[">>) \/ hits = {} THEN 0
        ELSE Len(PlaceholderTokens[CHOOSE k \in hits : \A j \in hits : k <= j]) + 2

\* \|\s*\|\s*\|
EmptyTableMatchLen(c, i) ==
    IF ~LitAt(c, i, <<"|">>) THEN 0
    ELSE LET a == SpaceRun(c, i + 1)
         IN  IF ~LitAt(c, i + 1 + a, <<"|">>) THEN 0
             ELSE LET b == SpaceRun(c, i + 2 + a)
                  IN  IF LitAt(c, i + 2 + a + b, <<"|">>) THEN 3 + a + b ELSE 0

\* - \[ \] \[
MissingCriteriaMatchLen(c, i) ==
    IF LitAtI(c, i, <<"-"," ","["," ","]"," ","[">>) THEN 7 ELSE 0

\* \b(maybe|probably|might|could|should consider|etc\.)\b under re.IGNORECASE
VagueMatchLen(c, i) ==
    LET hits == {k \in 1..Len(VagueWords) :
                    /\ LitAtI(c, i, VagueWords[k])
                    /\ WordBoundary(c, i + Len(VagueWords[k]))}
    IN  IF ~WordBoundary(c, i) \/ hits = {} THEN 0
        ELSE Len(VagueWords[CHOOSE k \in hits : \A j \in hits : k <= j])

\* - \[[x ]\] .+  under re.IGNORECASE ('.' does not match a newline)
CriteriaMatchLen(c, i) ==
    IF /\ LitAt(c, i, <<"-"," ","[">>)
       /\ i + 3 <= Len(c)
       /\ ToLower(c[i + 3]) \in {"x", " "}
       /\ LitAt(c, i + 4, <<"]"," ">>)
       /\ LineRest(c, i + 6) >= 1
      THEN 6 + LineRest(c, i + 6)
      ELSE 0

\* the fence marker: three backquotes
FenceMatchLen(c, i) == IF LitAt(c, i, <<Backquote, Backquote, Backquote>>) THEN 3 ELSE 0

\* ^\|.+\|$ under re.MULTILINE
TableRowMatchLen(c, i) ==
    LET n == LineRest(c, i)
    IN  IF /\ i >= 1 /\ i <= Len(c)
           /\ (i = 1 \/ c[i - 1] = "\n")
           /\ n >= 3
           /\ c[i] = "|"
           /\ c[i + n - 1] = "|"
          THEN n
          ELSE 0

MatchLen(pattern, c, i) ==
    CASE pattern = "unresolved_placeholders"     -> PlaceholderMatchLen(c, i)
      [] pattern = "empty_tables"                -> EmptyTableMatchLen(c, i)
      [] pattern = "missing_acceptance_criteria" -> MissingCriteriaMatchLen(c, i)
      [] pattern = "vague_language"              -> VagueMatchLen(c, i)
      [] pattern = "criteria"                    -> CriteriaMatchLen(c, i)
      [] pattern = "fence"                       -> FenceMatchLen(c, i)
      [] pattern = "table_row"                   -> TableRowMatchLen(c, i)

\* the pattern of a key of QUALITY_PATTERNS
PatternOf(check_name) ==
    CASE check_name = unresolved_placeholders     -> "unresolved_placeholders"
      [] check_name = empty_tables                -> "empty_tables"
      [] check_name = missing_acceptance_criteria -> "missing_acceptance_criteria"
      [] check_name = vague_language              -> "vague_language"

\* the position of the leftmost match of pattern in c at or after position i,
\* 0 when there is none
NextMatch(pattern, c, i) ==
    LET starts == {j \in i..Len(c) : MatchLen(pattern, c, j) > 0}
    IN  IF starts = {} THEN 0 ELSE CHOOSE j \in starts : \A k \in starts : j <= k

RECURSIVE FindAllFrom(_, _, _)
\* len(re.findall(pattern, c)) for the text from position i on: the scan
\* takes the leftmost match and goes on behind it
FindAllFrom(pattern, c, i) ==
    LET j == NextMatch(pattern, c, i)
    IN  IF j = 0 THEN 0
        ELSE 1 + FindAllFrom(pattern, c, j + MatchLen(pattern, c, j))

FindAllCount(pattern, c) == FindAllFrom(pattern, c, 1)

(***************************************************************************)
(* validate_sections                                                       *)
(***************************************************************************)

\* the pattern without the numeric label: ##\s+{section}
SectionMatchAtNoLabel(content, i, section) ==
    /\ LitAt(content, i, <<"#","#">>)
    /\ \E a \in 1..SpaceRun(content, i + 2) :
         LitAtI(content, i + 2 + a, section)

\* the pattern with anything of the line before the name: ##\s+.*{section}
SectionMatchAtSubstring(content, i, section) ==
    /\ LitAt(content, i, <<"#","#">>)
    /\ \E a \in 1..SpaceRun(content, i + 2) :
         \E g \in 0..LineRest(content, i + 2 + a) :
            LitAtI(content, i + 2 + a + g, section)

\* the pattern ##\s+\d*\.?\s*{section} matches at position i of content
\* (re.IGNORECASE); the section name holds no regex metacharacter
SectionMatchAt(content, i, section) ==
    /\ LitAt(content, i, <<"#","#">>)
    /\ \E a \in 1..SpaceRun(content, i + 2) :
         \E d \in 0..DigitRun(content, i + 2 + a) :
           \E p \in 0..(IF LitAt(content, i + 2 + a + d, <<".">>) THEN 1 ELSE 0) :
             \E s \in 0..SpaceRun(content, i + 2 + a + d + p) :
               LitAtI(content, i + 2 + a + d + p + s, section)

\* re.search(pattern, content, re.IGNORECASE) finds a match
SectionSearch(content, section) ==
    \E i \in 1..Len(content) : SectionMatchAt(content, i, section)

RECURSIVE SectionsLoopPrepend(_, _, _, _, _)
\* the loop putting each missing section in front of the list
SectionsLoopPrepend(content, required_sections, k, found, missing) ==
    IF k > Len(required_sections) THEN <<found, missing>>
    ELSE LET section == required_sections[k]
         IN  IF SectionSearch(content, section)
               THEN SectionsLoopPrepend(content, required_sections, k + 1,
                                        Append(found, section), missing)
               ELSE SectionsLoopPrepend(content, required_sections, k + 1,
                                        found, <<section>> \o missing)

RECURSIVE SectionsLoop(_, _, _, _, _)
\* the for loop of validate_sections from the k-th required section on
SectionsLoop(content, required_sections, k, found, missing) ==
    IF k > Len(required_sections) THEN <<found, missing>>
    ELSE LET section == required_sections[k]
         IN  IF SectionSearch(content, section)
               THEN SectionsLoop(content, required_sections, k + 1,
                                 Append(found, section), missing)
               ELSE SectionsLoop(content, required_sections, k + 1,
                                 found, Append(missing, section))

\* returns <<found, missing>>
validate_sections(content, required_sections) ==
    SectionsLoop(content, required_sections, 1, <<>>, <<>>)

(***************************************************************************)
(* check_quality and the statistics                                        *)
(***************************************************************************)

\* a flag stored instead of the count
IssueValueFlag(matches) == 1

\* the value check_quality stores for a check that has matches
IssueValue(matches) == matches

RECURSIVE QualityLoop(_, _, _)
\* the for loop of check_quality from the k-th pattern on; the dict issues is
\* the sequence of its <<key, value>> items in insertion order
QualityLoop(content, k, issues) ==
    IF k > Len(QUALITY_PATTERNS) THEN issues
    ELSE LET check_name == QUALITY_PATTERNS[k]
             matches == FindAllCount(PatternOf(check_name), content)
         IN  IF matches > 0
               THEN QualityLoop(content, k + 1,
                                Append(issues, <<check_name, IssueValue(matches)>>))
               ELSE QualityLoop(content, k + 1, issues)

check_quality(content) == QualityLoop(content, 1, <<>>)

\* 'name' in issues
HasIssue(issues, name) == \E k \in 1..Len(issues) : issues[k][1] = name

\* issues[name], for a name in issues
IssueCount(issues, name) ==
    issues[CHOOSE k \in 1..Len(issues) : issues[k][1] = name][2]

count_acceptance_criteria(content) == FindAllCount("criteria", content)

check_code_blocks(content) == FindAllCount("fence", content) \div 2

check_tables(content) == FindAllCount("table_row", content)

\* len(content.split('\n'))
LineCount(content) == Cardinality({i \in 1..Len(content) : content[i] = "\n"}) + 1

\* issue.replace('_', ' ').title()
IssueTitle(issue) ==
    LET spaced == [k \in 1..Len(issue) |-> IF issue[k] = "_" THEN " " ELSE issue[k]]
        cased(ch) == IsUpper(ch) \/ IsLower(ch)
    IN  [k \in 1..Len(spaced) |->
            IF k = 1 \/ ~cased(spaced[k - 1]) THEN ToUpper(spaced[k])
                                               ELSE ToLower(spaced[k])]

(***************************************************************************)
(* validate_spec: the report and the verdict                               *)
(***************************************************************************)
MinCriteria == 3      \* fewer acceptance criteria are remarked on
MinCodeBlocks == 2    \* fewer code blocks are remarked on (full mode)
MinTableRows == 3     \* fewer table rows are remarked on (full mode)
MinLines == 100       \* a shorter full spec is remarked on as brief
MaxLines == 500       \* a longer spec is remarked on as long

Required(quick) == IF quick THEN QUICK_SPEC_SECTIONS ELSE FULL_SPEC_SECTIONS

Line(kind, data) == [kind |-> kind, data |-> data]

\* the lines printed under "Recommendations:"
Recommendations(criteria_count, code_blocks, tables, line_count, quick) ==
       (IF criteria_count < MinCriteria THEN <<"add_criteria">> ELSE <<>>)
    \o (IF code_blocks < MinCodeBlocks /\ ~quick THEN <<"add_code_examples">> ELSE <<>>)
    \o (IF tables < MinTableRows /\ ~quick THEN <<"use_tables">> ELSE <<>>)
    \o (IF line_count < MinLines /\ ~quick THEN <<"brief">> ELSE <<>>)
    \o (IF line_count > MaxLines THEN <<"long">> ELSE <<>>)

\* has_critical_issues with the placeholder check left out
has_critical_issues_sections_only(missing, issues) == Len(missing) > 0

\* has_critical_issues taking every quality issue for critical
has_critical_issues_any_issue(missing, issues) == Len(missing) > 0 \/ Len(issues) > 0

has_critical_issues(missing, issues) ==
    Len(missing) > 0 \/ HasIssue(issues, unresolved_placeholders)

\* the verdict line printed for a validated file
Verdict(missing, issues) ==
    IF has_critical_issues(missing, issues) THEN "FAILED"
    ELSE IF Len(issues) > 0 THEN "PASSED with warnings"
    ELSE "PASSED"

\* the value validate_spec returns with a verdict
Returned(verdict) == verdict # "FAILED"

\* what validate_spec prints between the header and the final rule
ReportBody(content, quick, missing, issues) ==
    LET criteria_count == count_acceptance_criteria(content)
        code_blocks == check_code_blocks(content)
        tables == check_tables(content)
        line_count == LineCount(content)
    IN  << Line("sections", IF Len(missing) > 0 THEN missing ELSE <<Len(Required(quick))>>),
           Line("quality", [k \in 1..Len(issues) |-> <<IssueTitle(issues[k][1]), issues[k][2]>>]),
           Line("statistics", <<line_count, criteria_count, code_blocks, tables>>),
           Line("recommendations",
                Recommendations(criteria_count, code_blocks, tables, line_count, quick)) >>

\* the report of a validate_spec that returns at the first critical finding
ReportShortCircuit(filepath, content, quick, missing, issues) ==
    IF Len(missing) > 0
      THEN <<Line("header", <<filepath>>), ReportBody(content, quick, missing, issues)[1],
             Line("rule", <<>>), Line("verdict", <<Verdict(missing, issues)>>)>>
      ELSE    <<Line("header", <<filepath>>)>>
           \o ReportBody(content, quick, missing, issues)
           \o <<Line("rule", <<>>), Line("verdict", <<Verdict(missing, issues)>>)>>

\* everything validate_spec prints for a file that exists and was read
Report(filepath, content, quick, missing, issues) ==
       <<Line("header", <<filepath>>)>>
    \o ReportBody(content, quick, missing, issues)
    \o <<Line("rule", <<>>), Line("verdict", <<Verdict(missing, issues)>>)>>

(***************************************************************************)
(* main                                                                    *)
(***************************************************************************)

\* the aggregation with the last result overwriting the earlier ones
AggregateLast(passed, returned) == returned

\* the statement  if not validate_spec(...): all_passed = False
Aggregate(passed, returned) == IF ~returned THEN FALSE ELSE passed

\* sys.exit(0 if all_passed else 1)
ExitStatus(passed) == IF passed THEN 0 ELSE 1

\* the exit status of the interpreter after an uncaught exception
UncaughtExitStatus == 1

(***************************************************************************)
(* The inputs: the documents the paths of a run may name.                  *)
(***************************************************************************)

RECURSIVE Join(_)
\* the lines joined by newlines
Join(lines) ==
    IF Len(lines) = 0 THEN <<>>
    ELSE IF Len(lines) = 1 THEN lines[1]
    ELSE lines[1] \o <<"\n">> \o Join(Tail(lines))

Reverse(s) == [k \in 1..Len(s) |-> s[Len(s) + 1 - k]]

\* heading markers of level one, two and three
Markers == { <<"#">>, <<"#","#">>, <<"#","#","#">> }

\* numeric labels put before a section name: none, "1. ", "2.1 " and "3 "
Labels == { <<>>, <<"1","."," ">>, <<"2",".","1"," ">>, <<"3"," ">> }

Heading(marker, label, name) == marker \o <<" ">> \o label \o name

\* lines of body text that hold, or just miss, each of the quality patterns
BodyLines ==
    { <<"p","l","a","i","n"," ","t","e","x","t">>,
      <<"u","s","e","s"," ","[","T","O","D","O","]"," ","h","e","r","e">>,
      <<"m","a","y","b","e",","," ","M","a","y","b","e"," ","m","a","y","b","e">>,
      <<"a",","," ","b",","," ","e","t","c","."," ","a","n","d"," ","c">>,
      <<"w","e"," ","c","o","u","l","d",","," ","p","r","o","b","a","b","l","y">>,
      <<"i","t"," ","m","i","g","h","t",";"," ",
        "s","h","o","u","l","d"," ","c","o","n","s","i","d","e","r"," ","i","t">>,
      <<"m","i","g","h","t","i","l","y"," ","c","o","u","l","d","_","b","e">>,
      <<"|"," ","|"," ","|">>,
      <<"-"," ","["," ","]"," ","[","c","r","i","t","e","r","i","o","n","]">>,
      <<"-"," ","[","x","]"," ","d","o","n","e">> }

WhyOverviewMatters ==
    <<"#","#"," ","W","h","y"," ","O","v","e","r","v","i","e","w"," ",
      "M","a","t","t","e","r","s">>

Overviewing == <<"#","#"," ","O","v","e","r","v","i","e","w","i","n","g">>

\* the line put under a document of varied headings: text, a placeholder, or a
\* heading that mentions a section without being its heading
TailLines ==
    { <<"p","l","a","i","n"," ","t","e","x","t">>,
      <<"u","s","e","s"," ","[","T","O","D","O","]"," ","h","e","r","e">>,
      WhyOverviewMatters,
      Overviewing }

\* the sequences of at most n elements of the set S
SeqsUpTo(S, n) == UNION {[1..k -> S] : k \in 0..n}

\* the headings of the required sections whose index is in keep, all with the
\* same marker and label, in the required order or reversed
HeadingLines(required, keep, marker, label, reversed) ==
    LET all == [k \in 1..Len(required) |-> k]
        kept == SelectSeq(all, LAMBDA k : k \in keep)
        heads == [j \in 1..Len(kept) |-> Heading(marker, label, required[kept[j]])]
    IN  IF reversed THEN Reverse(heads) ELSE heads

\* documents of varied headings: "## name" headings with at most MaxMissing
\* required sections left out, and headings for every required section in
\* each marker and label; in both orders, each with a tail line
HeadingDocs(quick) ==
    LET required == Required(quick)
        n == Len(required)
        left_out ==
            { Join(HeadingLines(required, keep, <<"#","#">>, <<>>, reversed) \o <<tail>>) :
                keep \in {K \in SUBSET (1..n) : n - Cardinality(K) <= MaxMissing},
                reversed \in BOOLEAN, tail \in TailLines }
        styled ==
            { Join(HeadingLines(required, 1..n, marker, label, reversed) \o <<tail>>) :
                marker \in Markers, label \in Labels, reversed \in BOOLEAN,
                tail \in TailLines }
    IN  left_out \cup styled

\* documents of varied bodies: every required heading or none, then at most
\* MaxBody body lines
BodyDocs(quick) ==
    LET required == Required(quick)
        n == Len(required)
    IN  { Join(HeadingLines(required, keep, <<"#","#">>, <<>>, FALSE) \o body) :
            keep \in {1..n, {}}, body \in SeqsUpTo(BodyLines, MaxBody) }

\* the state of a path of the file system
Absent == [exists |-> FALSE, readable |-> FALSE, content |-> <<>>]
Unreadable == [exists |-> TRUE, readable |-> FALSE, content |-> <<>>]
File(content) == [exists |-> TRUE, readable |-> TRUE, content |-> content]

\* a document with every required heading and the given body lines
FullDoc(quick, body) ==
    Join(HeadingLines(Required(quick), 1..Len(Required(quick)),
                      <<"#","#">>, <<>>, FALSE) \o body)

\* the file system of a run over several paths
LibFS(quick) ==
    [p \in {"good.md", "warn.md", "todo.md", "short.md", "absent.md", "locked"} |->
        CASE p = "good.md"   -> File(FullDoc(quick, <<>>))
          [] p = "warn.md"   -> File(FullDoc(quick,
                                  << <<"I","t"," ","m","a","y","b","e"," ","w","o","r","k","s">> >>))
          [] p = "todo.md"   -> File(FullDoc(quick,
                                  << <<"u","s","e","s"," ","[","T","O","D","O","]"," ","h","e","r","e">> >>))
          [] p = "short.md"  -> File(Join(HeadingLines(Required(quick), {1, 2},
                                                       <<"#","#">>, <<>>, FALSE)
                                          \o << <<"s","e","e"," ","[","t","b","d","]">> >>))
          [] p = "absent.md" -> Absent
          [] p = "locked"    -> Unreadable]

(***************************************************************************)
(* The state of a run of main().                                           *)
(***************************************************************************)
VARIABLES
    fs,          \* the file system: path -> state of the path
    files,       \* args.files
    quick,       \* args.quick
    idx,         \* number of paths the for loop of main has taken
    all_passed,  \* main: all_passed
    result,      \* the value the last call of validate_spec returned
    found,       \* validate_spec: found, of the last file validated
    missing,     \* validate_spec: missing, of the last file validated
    issues,      \* validate_spec: issues, of the last file validated
    out,         \* the lines printed so far
    pc,          \* "main" while the loop runs, "exited" after the process ended
    status       \* the exit status of the process, NoStatus while it runs

vars == <<fs, files, quick, idx, all_passed, result, found, missing, issues, out, pc, status>>

NoStatus == -1

\* the state of main() at its first statement
Start ==
    /\ idx = 0
    /\ all_passed = TRUE
    /\ result = TRUE
    /\ found = <<>>
    /\ missing = <<>>
    /\ issues = <<>>
    /\ out = <<>>
    /\ pc = "main"
    /\ status = NoStatus

\* the file systems of a run over the single path spec.md
OneFile(docs) == {[p \in {"spec.md"} |-> f] : f \in {File(d) : d \in docs} \cup {Absent, Unreadable}}

\* runs over at most MaxFiles paths out of a file system of six
Init ==
    /\ quick \in BOOLEAN
    /\ fs = LibFS(quick)
    /\ files \in SeqsUpTo(DOMAIN fs, MaxFiles) \ {<<>>}
    /\ Start

\* runs over one document of varied headings
InitHeadings ==
    /\ quick \in BOOLEAN
    /\ fs \in OneFile(HeadingDocs(quick))
    /\ files = <<"spec.md">>
    /\ Start

\* runs over one document of varied body
InitBodies ==
    /\ quick \in BOOLEAN
    /\ fs \in OneFile(BodyDocs(quick))
    /\ files = <<"spec.md">>
    /\ Start

\* validate_spec on a path that does not exist
ValidateNotFound ==
    /\ pc = "main"
    /\ idx < Len(files)
    /\ ~fs[files[idx + 1]].exists
    /\ out' = Append(out, Line("not_found", <<files[idx + 1]>>))
    /\ result' = FALSE
    /\ all_passed' = Aggregate(all_passed, result')
    /\ idx' = idx + 1
    /\ UNCHANGED <<fs, files, quick, found, missing, issues, pc, status>>

\* validate_spec on a path that exists and whose read_text raises (a
\* directory, no permission, not decodable): nothing catches the exception,
\* the interpreter prints the traceback to stderr and ends the process
ValidateReadFails ==
    /\ pc = "main"
    /\ idx < Len(files)
    /\ fs[files[idx + 1]].exists
    /\ ~fs[files[idx + 1]].readable
    /\ pc' = "exited"
    /\ status' = UncaughtExitStatus
    /\ UNCHANGED <<fs, files, quick, idx, all_passed, result, found, missing, issues, out>>

\* validate_spec on a file that is read
ValidateSpec ==
    /\ pc = "main"
    /\ idx < Len(files)
    /\ fs[files[idx + 1]].exists
    /\ fs[files[idx + 1]].readable
    /\ LET filepath == files[idx + 1]
           content == fs[filepath].content
       IN  /\ \E sections \in {validate_sections(content, Required(quick))} :
                 /\ found' = sections[1]
                 /\ missing' = sections[2]
           /\ issues' = check_quality(content)
           /\ out' = out \o Report(filepath, content, quick, missing', issues')
           /\ result' = Returned(Verdict(missing', issues'))
           /\ all_passed' = Aggregate(all_passed, result')
    /\ idx' = idx + 1
    /\ UNCHANGED <<fs, files, quick, pc, status>>

\* the loop is over: sys.exit
Exit ==
    /\ pc = "main"
    /\ idx = Len(files)
    /\ pc' = "exited"
    /\ status' = ExitStatus(all_passed)
    /\ UNCHANGED <<fs, files, quick, idx, all_passed, result, found, missing, issues, out>>

Next == ValidateNotFound \/ ValidateReadFails \/ ValidateSpec \/ Exit

Spec == Init /\ [][Next]_vars

SpecHeadings == InitHeadings /\ [][Next]_vars

SpecBodies == InitBodies /\ [][Next]_vars

(***************************************************************************)
(* Notions the properties below are stated with.                           *)
(***************************************************************************)
Range(s) == {s[k] : k \in 1..Len(s)}

\* the last call of validate_spec read its file and printed a verdict
LastValidated ==
    /\ idx >= 1
    /\ fs[files[idx]].exists
    /\ fs[files[idx]].readable

\* the document of that call
LastContent == fs[files[idx]].content

\* the verdict line of that call
LastVerdict == out[Len(out)].data[1]

\* the document holds a heading the pattern of validate_sections accepts
SectionAbsent(c, q) ==
    \E k \in 1..Len(Required(q)) : ~SectionSearch(c, Required(q)[k])

\* the positions of the document at which a quality pattern matches
MatchStarts(pattern, c) == {i \in 1..Len(c) : MatchLen(pattern, c, i) > 0}

PlaceholderPresent(c) == MatchStarts("unresolved_placeholders", c) # {}

OtherIssuePresent(c) ==
    \/ MatchStarts("empty_tables", c) # {}
    \/ MatchStarts("missing_acceptance_criteria", c) # {}
    \/ MatchStarts("vague_language", c) # {}

\* the lines of out of the given kinds
LinesOf(kinds) == SelectSeq(out, LAMBDA l : l.kind \in kinds)

(***************************************************************************)
(* C1  The exit status is 0 if and only if every supplied file exists, was *)
(* read and got a verdict other than FAILED; it is 1 as soon as one file   *)
(* failed or was not found, wherever that file stands in the sequence and  *)
(* whatever the files after it give.                                       *)
(***************************************************************************)
C1_ExitStatus ==
    pc = "exited" =>
        LET verdicts == LinesOf({"verdict"})
            every_passed ==
                /\ \A k \in 1..Len(files) :
                      fs[files[k]].exists /\ fs[files[k]].readable
                /\ Len(verdicts) = Len(files)
                /\ \A k \in 1..Len(verdicts) : verdicts[k].data[1] # "FAILED"
            some_failed ==
                \/ LinesOf({"not_found"}) # <<>>
                \/ \E k \in 1..Len(verdicts) : verdicts[k].data[1] = "FAILED"
        IN  /\ status \in {0, 1}
            /\ status = 0 <=> every_passed
            /\ some_failed => status = 1

\* a run of three files whose first is not found and whose last passed
C1_Witness ==
    /\ pc = "exited"
    /\ Len(files) = MaxFiles
    /\ idx = Len(files)
    /\ ~fs[files[1]].exists
    /\ LastValidated
    /\ LastVerdict = "PASSED"
    /\ status = 1

(***************************************************************************)
(* C2  The verdict of a validated document is FAILED, and validate_spec    *)
(* returns false, if and only if a required section of the selected set    *)
(* has no matching heading or the placeholder pattern matches somewhere.   *)
(***************************************************************************)
C2_FailedIffCritical ==
    LastValidated =>
        LET critical == SectionAbsent(LastContent, quick)
                            \/ PlaceholderPresent(LastContent)
        IN  /\ LastVerdict = "FAILED" <=> critical
            /\ result = FALSE <=> critical

\* a document with every required section and a placeholder is FAILED
C2_Witness ==
    /\ LastValidated
    /\ ~SectionAbsent(LastContent, quick)
    /\ PlaceholderPresent(LastContent)
    /\ OtherIssuePresent(LastContent)
    /\ LastVerdict = "FAILED"
    /\ result = FALSE

(***************************************************************************)
(* C3  With no required section missing and no placeholder match the       *)
(* verdict is PASSED with warnings exactly when another quality pattern    *)
(* matches and PASSED exactly when none does; validate_spec returns true.  *)
(***************************************************************************)
C3_WarningsNeverFail ==
    (LastValidated /\ ~SectionAbsent(LastContent, quick)
                   /\ ~PlaceholderPresent(LastContent)) =>
        /\ LastVerdict = "PASSED with warnings" <=> OtherIssuePresent(LastContent)
        /\ LastVerdict = "PASSED" <=> ~OtherIssuePresent(LastContent)
        /\ result = TRUE

\* a complete document with vague language passes with warnings
C3_Witness ==
    /\ LastValidated
    /\ ~SectionAbsent(LastContent, quick)
    /\ ~PlaceholderPresent(LastContent)
    /\ MatchStarts("vague_language", LastContent) # {}
    /\ LastVerdict = "PASSED with warnings"
    /\ result = TRUE

(***************************************************************************)
(* Headings, read line by line.                                            *)
(***************************************************************************)
LineStarts(c) == {i \in 1..Len(c) : i = 1 \/ c[i - 1] = "\n"}

RECURSIVE HashRun(_, _)
HashRun(c, i) == IF i <= Len(c) /\ c[i] = "#" THEN 1 + HashRun(c, i + 1) ELSE 0

RECURSIVE BlankRun(_, _)
BlankRun(c, i) ==
    IF i <= Len(c) /\ c[i] \in {" ", "\t"} THEN 1 + BlankRun(c, i + 1) ELSE 0

RECURSIVE LabelRun(_, _)
LabelRun(c, i) ==
    IF i <= Len(c) /\ (IsDigit(c[i]) \/ c[i] = ".") THEN 1 + LabelRun(c, i + 1) ELSE 0

\* a line of c is a heading of any level for the section: one or more '#',
\* blanks, an optional numeric label such as "1." or "2.1", then the name
HeadingAnyLevel(c, name) ==
    \E i \in LineStarts(c) :
        LET h == HashRun(c, i)
            b == BlankRun(c, i + h)
            l == LabelRun(c, i + h + b)
            e == BlankRun(c, i + h + b + l)
        IN  h >= 1 /\ b >= 1 /\ LitAtI(c, i + h + b + l + e, name)

\* a line of c is a heading of level two or more for the section: two or
\* more '#', blanks, an optional label of digits with an optional dot behind
\* them, then the name
HeadingLevelTwoUp(c, name) ==
    \E i \in LineStarts(c) :
        LET h == HashRun(c, i)
            b == BlankRun(c, i + h)
            d == DigitRun(c, i + h + b)
            p == IF LitAt(c, i + h + b + d, <<".">>) THEN 1 ELSE 0
            e == BlankRun(c, i + h + b + d + p)
        IN  h >= 2 /\ b >= 1 /\ LitAtI(c, i + h + b + d + p + e, name)

(***************************************************************************)
(* C4 as stated: a document with a heading of any level, with or without a *)
(* numeric label such as "1." or "2.1", for every required section and     *)
(* with no placeholder marker is never FAILED.  The code does not accept a *)
(* level-one heading nor the label "2.1".                                  *)
(***************************************************************************)
C4_AnyLevelAnyLabel ==
    (/\ LastValidated
     /\ \A k \in 1..Len(Required(quick)) :
           HeadingAnyLevel(LastContent, Required(quick)[k])
     /\ ~PlaceholderPresent(LastContent)) =>
        LastVerdict # "FAILED"

(***************************************************************************)
(* C4 as amended: a document with a heading of level two or more, with no  *)
(* label or a label of digits and an optional dot, for every required      *)
(* section, in any order, and with no placeholder marker is PASSED or      *)
(* PASSED with warnings, never FAILED.                                     *)
(***************************************************************************)
C4_LevelTwoUp ==
    (/\ LastValidated
     /\ \A k \in 1..Len(Required(quick)) :
           HeadingLevelTwoUp(LastContent, Required(quick)[k])
     /\ ~PlaceholderPresent(LastContent)) =>
        /\ LastVerdict \in {"PASSED", "PASSED with warnings"}
        /\ result = TRUE

\* the eight full-mode headings at level three, labelled "1. ", in reverse order
C4_Witness ==
    /\ LastValidated
    /\ ~quick
    /\ LastContent =
         Join(HeadingLines(FULL_SPEC_SECTIONS, 1..Len(FULL_SPEC_SECTIONS),
                           <<"#","#","#">>, <<"1","."," ">>, TRUE)
              \o << <<"p","l","a","i","n"," ","t","e","x","t">> >>)
    /\ LastVerdict = "PASSED"

(***************************************************************************)
(* C6  validate_sections puts every required name in exactly one of found  *)
(* and missing, found holding the names that match and missing the others, *)
(* both in the order of the required list; a full-mode document lacking    *)
(* only Security and Performance gives missing = [Security, Performance].  *)
(***************************************************************************)
C6_FoundMissingPartition ==
    LastValidated =>
        LET required == Required(quick)
            matches(section) == SectionSearch(LastContent, section)
        IN  /\ found = SelectSeq(required, LAMBDA section : matches(section))
            /\ missing = SelectSeq(required, LAMBDA section : ~matches(section))
            /\ \A k \in 1..Len(required) :
                  (required[k] \in Range(found)) # (required[k] \in Range(missing))
            /\ (~quick /\ {section \in Range(required) : ~matches(section)}
                             = {Security, Performance})
                  => missing = <<Security, Performance>>

\* a full-mode document lacking only the Security and Performance headings
C6_Witness ==
    /\ LastValidated
    /\ ~quick
    /\ found = <<Overview, UserStories, Technical, UIUX, EdgeCases, Implementation>>
    /\ missing = <<Security, Performance>>

(***************************************************************************)
(* C7  check_quality holds an issue name if and only if its pattern        *)
(* matches in the document, and the value is the number of occurrences     *)
(* (the most matches that fit side by side), not a flag: three "maybe" and *)
(* no other hedging word give vague_language = 3.                          *)
(***************************************************************************)
Occurrences(pattern, c) ==
    LET starts == MatchStarts(pattern, c)
        apart(S) == \A i \in S : \A j \in S :
                        i < j => i + MatchLen(pattern, c, i) <= j
        sizes == {Cardinality(S) : S \in {T \in SUBSET starts : apart(T)}}
    IN  IF apart(starts) THEN Cardinality(starts)
        ELSE CHOOSE n \in sizes : \A m \in sizes : m <= n

C7_ExactCounts ==
    LastValidated =>
        /\ \A k \in 1..Len(QUALITY_PATTERNS) :
              LET name == QUALITY_PATTERNS[k]
              IN  /\ HasIssue(issues, name)
                        <=> MatchStarts(PatternOf(name), LastContent) # {}
                  /\ HasIssue(issues, name) =>
                        IssueCount(issues, name)
                            = Occurrences(PatternOf(name), LastContent)
        /\ \A k \in 1..Len(issues) :
              /\ issues[k][2] >= 1
              /\ \A j \in 1..Len(issues) : issues[j][1] = issues[k][1] => j = k

\* a document with three "maybe" and nothing else to remark on
C7_Witness ==
    /\ LastValidated
    /\ Cardinality({i \in 1..Len(LastContent) :
                       LitAtI(LastContent, i, <<"m","a","y","b","e">>)}) = 3
    /\ issues = << <<vague_language, 3>> >>

(***************************************************************************)
(* C8  Each of maybe, probably, might, could, "should consider" and "etc." *)
(* standing alone in the document (between whitespace, punctuation or the  *)
(* ends of the text) gives a vague_language count of at least 1.  The code *)
(* misses "etc.": the \b behind the dot asks for a word character there.   *)
(***************************************************************************)
StandsAlone(c, i, word) ==
    /\ LitAtI(c, i, word)
    /\ i = 1 \/ ~IsWordChar(c[i - 1])
    /\ i + Len(word) > Len(c) \/ ~IsWordChar(c[i + Len(word)])

C8_VagueWordsFlagged ==
    LastValidated =>
        \A k \in 1..Len(VagueWords) :
            (\E i \in 1..Len(LastContent) : StandsAlone(LastContent, i, VagueWords[k]))
                => /\ HasIssue(issues, vague_language)
                   /\ IssueCount(issues, vague_language) >= 1

(***************************************************************************)
(* C9 as stated: the name of a required section satisfies it anywhere      *)
(* behind the heading marker, so that a document with the heading          *)
(* "## Why Overview Matters" is reported as containing Overview.           *)
(***************************************************************************)
Contains(c, text) == \E i \in 1..Len(c) : LitAt(c, i, text)

C9_SubstringAnywhere ==
    (LastValidated /\ ~quick /\ Contains(LastContent, WhyOverviewMatters)) =>
        Overview \in Range(found)

(***************************************************************************)
(* C9 as amended: the name of a required section satisfies it only right   *)
(* behind the heading marker (whitespace and an optional numeric label in  *)
(* between), as a prefix of the heading text: "## Overviewing" is reported  *)
(* as containing Overview, while a document whose only heading mentioning  *)
(* it is "## Why Overview Matters" has Overview in missing, not in found.   *)
(***************************************************************************)
\* the name stands behind a "##" with only whitespace, digits and dots between
RightBehindMarker(c, name) ==
    \E m \in 1..Len(c) :
        /\ LitAt(c, m, <<"#","#">>)
        /\ m + 2 <= Len(c)
        /\ IsSpace(c[m + 2])
        /\ \E p \in (m + 3)..Len(c) :
              /\ LitAtI(c, p, name)
              /\ \A k \in (m + 2)..(p - 1) :
                    IsSpace(c[k]) \/ IsDigit(c[k]) \/ c[k] = "."

\* every mention of Overview in c is the one of a "## Why Overview Matters"
OnlyInWhyOverviewMatters(c) ==
    /\ Contains(c, WhyOverviewMatters)
    /\ \A p \in 1..Len(c) :
          LitAtI(c, p, Overview) => LitAt(c, p - 7, WhyOverviewMatters)

C9_PrefixBehindMarker ==
    LastValidated =>
        /\ \A k \in 1..Len(found) : RightBehindMarker(LastContent, found[k])
        /\ (~quick /\ OnlyInWhyOverviewMatters(LastContent)) =>
              /\ Overview \in Range(missing)
              /\ Overview \notin Range(found)
        /\ (quick /\ Contains(LastContent, WhyOverviewMatters)) =>
              Why \in Range(found)
        /\ (~quick /\ Contains(LastContent, Overviewing)) =>
              Overview \in Range(found)

\* a full-mode document whose only mention of Overview is that heading
C9_Witness ==
    /\ LastValidated
    /\ ~quick
    /\ OnlyInWhyOverviewMatters(LastContent)
    /\ Overview \in Range(missing)

(***************************************************************************)
(* C10  For every file read, the section result, the quality result, the   *)
(* statistics and the recommendations are each printed once, in that       *)
(* order, before the verdict, also when a section is missing or a          *)
(* placeholder was found; the verdict is the last line of the file.        *)
(***************************************************************************)
ReportKinds ==
    <<"header", "sections", "quality", "statistics", "recommendations", "rule",
      "verdict">>

RECURSIVE ExpectedKinds(_)
\* the kinds of the lines printed for the first k paths
ExpectedKinds(k) ==
    IF k = 0 THEN <<>>
    ELSE ExpectedKinds(k - 1)
            \o (IF fs[files[k]].exists THEN ReportKinds ELSE <<"not_found">>)

C10_FullReportBeforeVerdict ==
    /\ [k \in 1..Len(out) |-> out[k].kind] = ExpectedKinds(idx)
    /\ LastValidated =>
          /\ out[Len(out) - 6].data = <<files[idx]>>
          /\ out[Len(out) - 5].data =
                (IF Len(missing) > 0 THEN missing ELSE <<Len(Required(quick))>>)
          /\ Len(out[Len(out) - 4].data) = Len(issues)
          /\ Len(out[Len(out) - 3].data) = 4

\* a document with a missing section and a placeholder, reported in full
C10_Witness ==
    /\ LastValidated
    /\ Len(missing) > 0
    /\ HasIssue(issues, unresolved_placeholders)
    /\ Len(out) >= 7
    /\ [k \in 1..7 |-> out[Len(out) - 7 + k].kind] = ReportKinds
    /\ LastVerdict = "FAILED"

(***************************************************************************)
(* C5  Every supplied path is processed once and in the order supplied,    *)
(* and no failure on a file (not found, FAILED, or a read that does not    *)
(* succeed) keeps the later files from being read and reported.  The code  *)
(* lets the exception of a failing read end the process.                   *)
(***************************************************************************)
\* the paths named by the header and not-found lines printed, in order
PathsPrinted ==
    LET named == LinesOf({"header", "not_found"})
    IN  [k \in 1..Len(named) |-> named[k].data[1]]

\* the supplied paths that a run owes a line: all but those it cannot read
PathsOwed ==
    SelectSeq(files, LAMBDA p : ~fs[p].exists \/ fs[p].readable)

C5_BatchNeverAborts ==
    pc = "exited" =>
        /\ PathsPrinted = PathsOwed
        /\ Len(LinesOf({"verdict"})) =
              Len(SelectSeq(files, LAMBDA p : fs[p].exists /\ fs[p].readable))

====
